---- MODULE Spec2Model ----
(***************************************************************************)
(* Model of main.py: the event-triggered function generate_and_push_profile *)
(* and its three helpers fetch_message_history,                            *)
(* generate_business_profile_with_gemini and push_profile_to_turn.         *)
(*                                                                         *)
(* Text is kept concrete.  A Python str is a sequence of code points, a    *)
(* bytes object a sequence of 0..255, so that base64, UTF-8 and JSON are   *)
(* computed character by character and a round trip can fail.              *)
(***************************************************************************)
EXTENDS Integers, Sequences, FiniteSets, TLC

(***************************************************************************)
(* Python values that an event, or a parsed JSON document, can hold.       *)
(***************************************************************************)
PyNone == [t |-> "none"]
PyStr(s) == [t |-> "str", s |-> s]
PyBytes(b) == [t |-> "bytes", b |-> b]
PyInt(n) == [t |-> "int", n |-> n]
PyFloat(lex) == [t |-> "float", lex |-> lex]
PyBool(v) == [t |-> "bool", v |-> v]
PyList(l) == [t |-> "list", l |-> l]
PyDict(d) == [t |-> "dict", d |-> d]

EmptyDict == [k \in {} |-> PyNone]

\* Python truthiness, as `not phone_number` evaluates it.
Truthy(v) ==
    CASE v.t = "none" -> FALSE
      [] v.t = "str" -> Len(v.s) > 0
      [] v.t = "bytes" -> Len(v.b) > 0
      [] v.t = "int" -> v.n # 0
      [] v.t = "float" -> \E i \in 1..Len(v.lex) :
                              /\ v.lex[i] \in 49..57
                              /\ \A j \in 1..(i - 1) : v.lex[j] \notin {69, 101}
      [] v.t = "bool" -> v.v
      [] v.t = "list" -> Len(v.l) > 0
      [] v.t = "dict" -> DOMAIN v.d # {}

(***************************************************************************)
(* String helpers.                                                         *)
(***************************************************************************)
\* s[i..] starts with lit
StartsWith(s, i, lit) ==
    /\ i + Len(lit) - 1 <= Len(s)
    /\ \A k \in 1..Len(lit) : s[i + k - 1] = lit[k]

\* Python `sub in s` for two strings
Contains(s, sub) == \E i \in 1..(Len(s) + 1) : StartsWith(s, i, sub)

RECURSIVE Digits(_)
Digits(n) == IF n < 10 THEN <<48 + n>> ELSE Append(Digits(n \div 10), 48 + (n % 10))

\* str(n) of an int
IntToStr(n) == IF n < 0 THEN <<45>> \o Digits(0 - n) ELSE Digits(n)

HexDigit(v) == IF v < 10 THEN 48 + v ELSE 87 + v

HexVal(c) ==
    IF c \in 48..57 THEN c - 48
    ELSE IF c \in 97..102 THEN c - 87
    ELSE IF c \in 65..70 THEN c - 55
    ELSE 16

\* the six characters \uXXXX of a code unit
EscapeU(u) ==
    <<92, 117, HexDigit(u \div 4096), HexDigit((u \div 256) % 16),
      HexDigit((u \div 16) % 16), HexDigit(u % 16)>>

(***************************************************************************)
(* base64.b64encode / base64.b64decode (binascii, non-strict mode).        *)
(***************************************************************************)
B64Char(v) ==
    IF v < 26 THEN 65 + v
    ELSE IF v < 52 THEN 71 + v
    ELSE IF v < 62 THEN v - 4
    ELSE IF v = 62 THEN 43 ELSE 47

\* 64 stands for "not in the alphabet"
B64Val(c) ==
    IF c \in 65..90 THEN c - 65
    ELSE IF c \in 97..122 THEN c - 71
    ELSE IF c \in 48..57 THEN c + 4
    ELSE IF c = 43 THEN 62
    ELSE IF c = 47 THEN 63
    ELSE 64

RECURSIVE B64Encode(_)
B64Encode(b) ==
    IF Len(b) = 0 THEN <<>>
    ELSE IF Len(b) = 1 THEN
        <<B64Char(b[1] \div 4), B64Char((b[1] % 4) * 16), 61, 61>>
    ELSE IF Len(b) = 2 THEN
        <<B64Char(b[1] \div 4), B64Char((b[1] % 4) * 16 + (b[2] \div 16)),
          B64Char((b[2] % 16) * 4), 61>>
    ELSE
        <<B64Char(b[1] \div 4), B64Char((b[1] % 4) * 16 + (b[2] \div 16)),
          B64Char((b[2] % 16) * 4 + (b[3] \div 64)), B64Char(b[3] % 64)>>
        \o B64Encode(SubSeq(b, 4, Len(b)))

\* binascii.a2b_base64: characters outside the alphabet are skipped, a pad
\* that completes a quad ends the data, a dangling quad is an error.
RECURSIVE A2bBase64(_, _, _, _, _, _)
A2bBase64(s, i, quad_pos, leftchar, pads, out) ==
    IF i > Len(s) THEN [ok |-> quad_pos = 0, b |-> out]
    ELSE IF s[i] = 61 THEN
        IF quad_pos >= 2 /\ quad_pos + pads + 1 >= 4
        THEN [ok |-> TRUE, b |-> out]
        ELSE A2bBase64(s, i + 1, quad_pos, leftchar,
                       IF quad_pos >= 2 THEN pads + 1 ELSE pads, out)
    ELSE IF B64Val(s[i]) = 64 THEN A2bBase64(s, i + 1, quad_pos, leftchar, pads, out)
    ELSE LET v == B64Val(s[i]) IN
        CASE quad_pos = 0 -> A2bBase64(s, i + 1, 1, v, 0, out)
          [] quad_pos = 1 ->
                A2bBase64(s, i + 1, 2, v % 16, 0, Append(out, leftchar * 4 + (v \div 16)))
          [] quad_pos = 2 ->
                A2bBase64(s, i + 1, 3, v % 4, 0, Append(out, leftchar * 16 + (v \div 4)))
          [] quad_pos = 3 ->
                A2bBase64(s, i + 1, 0, 0, 0, Append(out, leftchar * 64 + v))

\* base64.b64decode(v): a str must be ASCII (ValueError otherwise), bytes are
\* taken as they are, anything else is a TypeError.
B64Decode(v) ==
    CASE v.t = "str" ->
            IF \A i \in 1..Len(v.s) : v.s[i] < 128
            THEN A2bBase64(v.s, 1, 0, 0, 0, <<>>)
            ELSE [ok |-> FALSE, b |-> <<>>]
      [] v.t = "bytes" -> A2bBase64(v.b, 1, 0, 0, 0, <<>>)
      [] OTHER -> [ok |-> FALSE, b |-> <<>>]

(***************************************************************************)
(* str.encode("utf-8") / bytes.decode("utf-8").                            *)
(***************************************************************************)
RECURSIVE Utf8Encode(_)
Utf8Encode(s) ==
    IF Len(s) = 0 THEN <<>>
    ELSE LET c == s[1]
             head == IF c < 128 THEN <<c>>
                     ELSE IF c < 2048 THEN <<192 + (c \div 64), 128 + (c % 64)>>
                     ELSE IF c < 65536 THEN
                         <<224 + (c \div 4096), 128 + ((c \div 64) % 64), 128 + (c % 64)>>
                     ELSE <<240 + (c \div 262144), 128 + ((c \div 4096) % 64),
                            128 + ((c \div 64) % 64), 128 + (c % 64)>>
         IN head \o Utf8Encode(Tail(s))

IsCont(b, i) == i <= Len(b) /\ b[i] \in 128..191

RECURSIVE Utf8DecodeFrom(_, _, _)
Utf8DecodeFrom(b, i, out) ==
    IF i > Len(b) THEN [ok |-> TRUE, s |-> out]
    ELSE LET c == b[i] IN
        IF c < 128 THEN Utf8DecodeFrom(b, i + 1, Append(out, c))
        ELSE IF c \in 194..223 /\ IsCont(b, i + 1) THEN
            Utf8DecodeFrom(b, i + 2, Append(out, (c - 192) * 64 + (b[i + 1] - 128)))
        ELSE IF /\ c \in 224..239 /\ IsCont(b, i + 1) /\ IsCont(b, i + 2)
                /\ (c = 224 => b[i + 1] >= 160)
                /\ (c = 237 => b[i + 1] <= 159) THEN
            Utf8DecodeFrom(b, i + 3,
                Append(out, (c - 224) * 4096 + (b[i + 1] - 128) * 64 + (b[i + 2] - 128)))
        ELSE IF /\ c \in 240..244
                /\ IsCont(b, i + 1) /\ IsCont(b, i + 2) /\ IsCont(b, i + 3)
                /\ (c = 240 => b[i + 1] >= 144)
                /\ (c = 244 => b[i + 1] <= 143) THEN
            Utf8DecodeFrom(b, i + 4,
                Append(out, (c - 240) * 262144 + (b[i + 1] - 128) * 4096
                            + (b[i + 2] - 128) * 64 + (b[i + 3] - 128)))
        ELSE [ok |-> FALSE, s |-> <<>>]

Utf8Decode(b) == Utf8DecodeFrom(b, 1, <<>>)

(***************************************************************************)
(* json.dumps (default separators, ensure_ascii) and json.loads.           *)
(***************************************************************************)
\* one character of a string, as json.dumps writes it
JsonEscape(c) ==
    CASE c = 34 -> <<92, 34>>
      [] c = 92 -> <<92, 92>>
      [] c = 10 -> <<92, 110>>
      [] c = 13 -> <<92, 114>>
      [] c = 9 -> <<92, 116>>
      [] c = 8 -> <<92, 98>>
      [] c = 12 -> <<92, 102>>
      [] c \in 32..126 /\ c \notin {34, 92} -> <<c>>
      [] c >= 65536 ->
            EscapeU(55296 + ((c - 65536) \div 1024)) \o EscapeU(56320 + ((c - 65536) % 1024))
      [] OTHER -> EscapeU(c)

RECURSIVE JsonEscapeAll(_)
JsonEscapeAll(s) == IF Len(s) = 0 THEN <<>> ELSE JsonEscape(s[1]) \o JsonEscapeAll(Tail(s))

JsonQuote(s) == <<34>> \o JsonEscapeAll(s) \o <<34>>

RECURSIVE JsonDumps(_), JsonDumpsItems(_), JsonDumpsMembers(_)
JsonDumps(v) ==
    CASE v.t = "none" -> <<110, 117, 108, 108>>
      [] v.t = "bool" -> IF v.v THEN <<116, 114, 117, 101>> ELSE <<102, 97, 108, 115, 101>>
      [] v.t = "int" -> IntToStr(v.n)
      [] v.t = "float" -> v.lex
      [] v.t = "str" -> JsonQuote(v.s)
      [] v.t = "list" -> <<91>> \o JsonDumpsItems(v.l) \o <<93>>
      [] v.t = "dict" -> <<123>> \o JsonDumpsMembers(v.d) \o <<125>>

JsonDumpsItems(l) ==
    IF Len(l) = 0 THEN <<>>
    ELSE IF Len(l) = 1 THEN JsonDumps(l[1])
    ELSE JsonDumps(l[1]) \o <<44, 32>> \o JsonDumpsItems(Tail(l))

\* the members in one of the orders the dict can have been filled in
JsonDumpsMembers(d) ==
    IF DOMAIN d = {} THEN <<>>
    ELSE LET k == CHOOSE x \in DOMAIN d : TRUE
             rest == [x \in DOMAIN d \ {k} |-> d[x]]
             member == JsonQuote(k) \o <<58, 32>> \o JsonDumps(d[k])
         IN IF DOMAIN rest = {} THEN member
            ELSE member \o <<44, 32>> \o JsonDumpsMembers(rest)

IsWs(c) == c \in {32, 9, 10, 13}

RECURSIVE SkipWs(_, _)
SkipWs(s, i) == IF i <= Len(s) /\ IsWs(s[i]) THEN SkipWs(s, i + 1) ELSE i

RECURSIVE SkipDigits(_, _)
SkipDigits(s, i) == IF i <= Len(s) /\ s[i] \in 48..57 THEN SkipDigits(s, i + 1) ELSE i

RECURSIVE DigitsValue(_, _, _, _)
DigitsValue(s, i, j, acc) ==
    IF i >= j THEN acc ELSE DigitsValue(s, i + 1, j, acc * 10 + (s[i] - 48))

\* a failed parse; a successful one is [ok |-> TRUE, v |-> value, i |-> next index]
JFail == [ok |-> FALSE]

IsHex4(s, i) == i + 3 <= Len(s) /\ \A k \in 0..3 : HexVal(s[i + k]) < 16

Hex4(s, i) ==
    HexVal(s[i]) * 4096 + HexVal(s[i + 1]) * 256 + HexVal(s[i + 2]) * 16 + HexVal(s[i + 3])

\* the character a one-letter escape stands for; 0 when it is no escape
Backslash(c) ==
    CASE c = 34 -> 34
      [] c = 92 -> 92
      [] c = 47 -> 47
      [] c = 98 -> 8
      [] c = 102 -> 12
      [] c = 110 -> 10
      [] c = 114 -> 13
      [] c = 116 -> 9
      [] OTHER -> 0

\* json.decoder.scanstring (strict), from the character after the opening quote
RECURSIVE ScanString(_, _, _)
ScanString(s, i, out) ==
    IF i > Len(s) THEN JFail
    ELSE IF s[i] = 34 THEN [ok |-> TRUE, v |-> out, i |-> i + 1]
    ELSE IF s[i] < 32 THEN JFail
    ELSE IF s[i] # 92 THEN ScanString(s, i + 1, Append(out, s[i]))
    ELSE IF i + 1 > Len(s) THEN JFail
    ELSE IF s[i + 1] = 117 THEN
        IF ~IsHex4(s, i + 2) THEN JFail
        ELSE LET u == Hex4(s, i + 2) IN
            IF /\ u \in 55296..56319
               /\ StartsWith(s, i + 6, <<92, 117>>)
               /\ IsHex4(s, i + 8)
               /\ Hex4(s, i + 8) \in 56320..57343
            THEN ScanString(s, i + 12,
                     Append(out, 65536 + (u - 55296) * 1024 + (Hex4(s, i + 8) - 56320)))
            ELSE ScanString(s, i + 6, Append(out, u))
    ELSE IF Backslash(s[i + 1]) = 0 THEN JFail
    ELSE ScanString(s, i + 2, Append(out, Backslash(s[i + 1])))

\* json.scanner NUMBER_RE at i: (-?(?:0|[1-9]\d*))(\.\d+)?([eE][-+]?\d+)?
\* i: the start; a: after the sign; b: after the integer; f: after the fraction
NumberValue(s, i, a, b, e) ==
    IF e = b
    THEN [ok |-> TRUE, i |-> b,
          v |-> PyInt(IF a > i THEN 0 - DigitsValue(s, a, b, 0) ELSE DigitsValue(s, a, b, 0))]
    ELSE [ok |-> TRUE, i |-> e, v |-> PyFloat(SubSeq(s, i, e - 1))]

\* x: where the digits of the exponent must start
ScanExpDigits(s, i, a, b, f, x) ==
    NumberValue(s, i, a, b, IF x <= Len(s) /\ s[x] \in 48..57 THEN SkipDigits(s, x) ELSE f)

ScanExp(s, i, a, b, f) ==
    IF f <= Len(s) /\ s[f] \in {69, 101}
    THEN ScanExpDigits(s, i, a, b, f,
             IF f + 1 <= Len(s) /\ s[f + 1] \in {43, 45} THEN f + 2 ELSE f + 1)
    ELSE NumberValue(s, i, a, b, f)

ScanFrac(s, i, a, b) ==
    IF b = a THEN JFail
    ELSE ScanExp(s, i, a, b,
             IF b + 1 <= Len(s) /\ s[b] = 46 /\ s[b + 1] \in 48..57
             THEN SkipDigits(s, b + 1) ELSE b)

ScanInt(s, i, a) ==
    ScanFrac(s, i, a, IF a <= Len(s) /\ s[a] = 48 THEN a + 1 ELSE SkipDigits(s, a))

ScanNumber(s, i) == ScanInt(s, i, IF i <= Len(s) /\ s[i] = 45 THEN i + 1 ELSE i)

\* json.scanner.py_make_scanner._scan_once, JSONObject and JSONArray.  Each
\* step hands what it scanned to the next one.
RECURSIVE ParseValue(_, _), ParseMembers(_, _, _), ParseElements(_, _, _)

StringValue(r) == IF r.ok THEN [ok |-> TRUE, v |-> PyStr(r.v), i |-> r.i] ELSE JFail

\* the constants tried after the number pattern
NumberOrConstant(s, i, number) ==
    IF number.ok THEN number
    ELSE IF StartsWith(s, i, <<78, 97, 78>>) THEN
        [ok |-> TRUE, v |-> PyFloat(<<78, 97, 78>>), i |-> i + 3]
    ELSE IF StartsWith(s, i, <<73, 110, 102, 105, 110, 105, 116, 121>>) THEN
        [ok |-> TRUE, v |-> PyFloat(<<57>>), i |-> i + 8]
    ELSE IF StartsWith(s, i, <<45, 73, 110, 102, 105, 110, 105, 116, 121>>) THEN
        [ok |-> TRUE, v |-> PyFloat(<<45, 57>>), i |-> i + 9]
    ELSE JFail

\* j: the first character after { and whitespace
ParseObject(s, j) ==
    IF j <= Len(s) /\ s[j] = 125
    THEN [ok |-> TRUE, v |-> PyDict(EmptyDict), i |-> j + 1]
    ELSE ParseMembers(s, j, EmptyDict)

\* j: the first character after [ and whitespace
ParseArray(s, j) ==
    IF j <= Len(s) /\ s[j] = 93
    THEN [ok |-> TRUE, v |-> PyList(<<>>), i |-> j + 1]
    ELSE ParseElements(s, j, <<>>)

ParseValue(s, i) ==
    IF i > Len(s) THEN JFail
    ELSE IF s[i] = 34 THEN StringValue(ScanString(s, i + 1, <<>>))
    ELSE IF s[i] = 123 THEN ParseObject(s, SkipWs(s, i + 1))
    ELSE IF s[i] = 91 THEN ParseArray(s, SkipWs(s, i + 1))
    ELSE IF StartsWith(s, i, <<110, 117, 108, 108>>) THEN
        [ok |-> TRUE, v |-> PyNone, i |-> i + 4]
    ELSE IF StartsWith(s, i, <<116, 114, 117, 101>>) THEN
        [ok |-> TRUE, v |-> PyBool(TRUE), i |-> i + 4]
    ELSE IF StartsWith(s, i, <<102, 97, 108, 115, 101>>) THEN
        [ok |-> TRUE, v |-> PyBool(FALSE), i |-> i + 5]
    ELSE NumberOrConstant(s, i, ScanNumber(s, i))

\* e: the first character after a member and whitespace; a later key wins
MemberEnd(s, d, e) ==
    IF e > Len(s) THEN JFail
    ELSE IF s[e] = 125 THEN [ok |-> TRUE, v |-> PyDict(d), i |-> e + 1]
    ELSE IF s[e] = 44 THEN ParseMembers(s, SkipWs(s, e + 1), d)
    ELSE JFail

MemberNext(s, d, key, r) ==
    IF ~r.ok THEN JFail ELSE MemberEnd(s, (key :> r.v) @@ d, SkipWs(s, r.i))

\* c: the first character after the key and whitespace
MemberValue(s, d, key, c) ==
    IF c > Len(s) \/ s[c] # 58 THEN JFail
    ELSE MemberNext(s, d, key, ParseValue(s, SkipWs(s, c + 1)))

MemberKey(s, d, k) == IF ~k.ok THEN JFail ELSE MemberValue(s, d, k.v, SkipWs(s, k.i))

\* i: where the next member's key must open
ParseMembers(s, i, d) ==
    IF i > Len(s) \/ s[i] # 34 THEN JFail
    ELSE MemberKey(s, d, ScanString(s, i + 1, <<>>))

\* e: the first character after an element and whitespace
ElementEnd(s, l, e) ==
    IF e > Len(s) THEN JFail
    ELSE IF s[e] = 93 THEN [ok |-> TRUE, v |-> PyList(l), i |-> e + 1]
    ELSE IF s[e] = 44 THEN ParseElements(s, SkipWs(s, e + 1), l)
    ELSE JFail

ElementNext(s, l, r) ==
    IF ~r.ok THEN JFail ELSE ElementEnd(s, Append(l, r.v), SkipWs(s, r.i))

\* i: where the next element must start
ParseElements(s, i, l) == ElementNext(s, l, ParseValue(s, i))

\* nothing but whitespace may follow the value
WholeText(s, r) ==
    IF r.ok /\ SkipWs(s, r.i) = Len(s) + 1 THEN [ok |-> TRUE, v |-> r.v] ELSE JFail

\* json.loads(s)
JsonLoads(s) == WholeText(s, ParseValue(s, SkipWs(s, 1)))

(***************************************************************************)
(* The literals of main.py.                                                *)
(***************************************************************************)
\* "data", "phone_number", "httpMethod", "OPTIONS", "+"
K_data == <<100, 97, 116, 97>>
K_phone_number == <<112, 104, 111, 110, 101, 95, 110, 117, 109, 98, 101, 114>>
K_httpMethod == <<104, 116, 116, 112, 77, 101, 116, 104, 111, 100>>
OPTIONS == <<79, 80, 84, 73, 79, 78, 83>>
PLUS == <<43>>

\* headers of the preflight answer and of every other answer
PreflightHeaders ==
    ("Access-Control-Allow-Origin" :> "*")
    @@ ("Access-Control-Allow-Methods" :> "POST, GET, OPTIONS")
    @@ ("Access-Control-Allow-Headers" :> "Content-Type, x-api-key")
    @@ ("Access-Control-Max-Age" :> "3600")

response_headers == ("Access-Control-Allow-Origin" :> "*")

\* LIMIT of the history query
LIMIT == 50

(***************************************************************************)
(* Python operations the handler applies to the event.                     *)
(***************************************************************************)
\* d.get(key)
DictGet(d, key) == IF key \in DOMAIN d THEN d[key] ELSE PyNone

\* `key in v`; ok = FALSE is the TypeError of a value that is no container
In(key, v) ==
    CASE v.t = "dict" -> [ok |-> TRUE, r |-> key \in DOMAIN v.d]
      [] v.t = "str" -> [ok |-> TRUE, r |-> Contains(v.s, key)]
      [] v.t = "list" -> [ok |-> TRUE, r |-> \E i \in 1..Len(v.l) : v.l[i] = PyStr(key)]
      [] OTHER -> [ok |-> FALSE, r |-> FALSE]

\* v[key] with a str key; ok = FALSE is the TypeError of a str or a list
GetItem(v, key) ==
    IF v.t = "dict" /\ key \in DOMAIN v.d
    THEN [ok |-> TRUE, v |-> v.d[key]]
    ELSE [ok |-> FALSE, v |-> PyNone]

RECURSIVE LStrip(_, _)
\* s.lstrip(chars)
LStrip(s, chars) ==
    IF Len(s) > 0 /\ \E k \in 1..Len(chars) : chars[k] = s[1]
    THEN LStrip(Tail(s), chars)
    ELSE s

RECURSIVE Join(_, _)
\* sep.join(parts)
Join(sep, parts) ==
    IF Len(parts) = 0 THEN <<>>
    ELSE IF Len(parts) = 1 THEN parts[1]
    ELSE parts[1] \o sep \o Join(sep, Tail(parts))

RECURSIVE Format(_), Repr(_), FormatItems(_), FormatMembers(_)
\* what an f-string writes for v: str(v).  A float keeps its digits as read.
Format(v) ==
    CASE v.t = "str" -> v.s
      [] v.t = "none" -> <<78, 111, 110, 101>>
      [] v.t = "bool" -> IF v.v THEN <<84, 114, 117, 101>> ELSE <<70, 97, 108, 115, 101>>
      [] v.t = "int" -> IntToStr(v.n)
      [] v.t = "float" -> v.lex
      [] v.t = "bytes" -> <<98, 39>> \o v.b \o <<39>>
      [] v.t = "list" -> <<91>> \o FormatItems(v.l) \o <<93>>
      [] v.t = "dict" -> <<123>> \o FormatMembers(v.d) \o <<125>>

\* repr(v): a str inside a list or a dict is written between single quotes
Repr(v) == IF v.t = "str" THEN <<39>> \o v.s \o <<39>> ELSE Format(v)

FormatItems(l) ==
    IF Len(l) = 0 THEN <<>>
    ELSE IF Len(l) = 1 THEN Repr(l[1])
    ELSE Repr(l[1]) \o <<44, 32>> \o FormatItems(Tail(l))

FormatMembers(d) ==
    IF DOMAIN d = {} THEN <<>>
    ELSE LET k == CHOOSE x \in DOMAIN d : TRUE
             rest == [x \in DOMAIN d \ {k} |-> d[x]]
             member == Repr(PyStr(k)) \o <<58, 32>> \o Repr(d[k])
         IN IF DOMAIN rest = {} THEN member
            ELSE member \o <<44, 32>> \o FormatMembers(rest)

(***************************************************************************)
(* generate_and_push_profile, lines 214-261: the preflight answer and the  *)
(* decoding of the event.  The result is either the three-tuple returned   *)
(* or the phone number the main logic goes on with.                        *)
(***************************************************************************)
Return(body, status, headers) ==
    [returns |-> TRUE, response |-> <<body, status, headers>>, phone_number |-> PyNone]

Continue(phone_number) ==
    [returns |-> FALSE, response |-> <<>>, phone_number |-> phone_number]

\* line 259: except Exception
ErrorProcessingEvent == Return("Error processing event: {e}", 500, response_headers)

\* line 256: except json.JSONDecodeError
ErrorDecodingJson == Return("Error decoding JSON: {e}", 400, response_headers)

\* lines 236-243
DecodePhone(phone_number) ==
    IF ~Truthy(phone_number)
    THEN Return("Error: 'phone_number' missing in payload.", 400, response_headers)
    ELSE Continue(phone_number)

\* line 236: message_data.get is an AttributeError unless message_data is a dict
DecodeDocument(message_data) ==
    IF ~message_data.ok THEN ErrorDecodingJson
    ELSE IF message_data.v.t # "dict" THEN ErrorProcessingEvent
    ELSE DecodePhone(DictGet(message_data.v.d, K_phone_number))

\* line 235
DecodeText(text) ==
    IF ~text.ok THEN ErrorProcessingEvent ELSE DecodeDocument(JsonLoads(text.s))

\* line 233: .decode("utf-8")
DecodeBytes(raw) ==
    IF ~raw.ok THEN ErrorProcessingEvent ELSE DecodeText(Utf8Decode(raw.b))

\* line 233: base64.b64decode(event["data"])
DecodeData(item) ==
    IF ~item.ok THEN ErrorProcessingEvent ELSE DecodeBytes(B64Decode(item.v))

\* lines 233-243: the Pub/Sub branch
DecodePubSub(event) == DecodeData(GetItem(event, K_data))

\* lines 232-254; has_data: the outcome of `"data" in event`
DecodeShape(event, has_data) ==
    IF ~has_data.ok THEN ErrorProcessingEvent
    ELSE IF has_data.r THEN DecodePubSub(event)
    ELSE IF event.t = "str" THEN Continue(event)
    ELSE IF event.t = "dict" /\ K_phone_number \in DOMAIN event.d
    THEN Continue(event.d[K_phone_number])
    ELSE Return("Error: Invalid request format or missing phone_number.", 400,
                response_headers)

\* lines 214-261
DecodeEvent(event) ==
    IF event.t = "dict" /\ DictGet(event.d, K_httpMethod) = PyStr(OPTIONS)
    THEN Return("", 204, PreflightHeaders)
    ELSE DecodeShape(event, In(K_data, event))

(***************************************************************************)
(* fetch_message_history: the query of lines 70-107 over the table, and    *)
(* the list comprehension of line 112.                                     *)
(*                                                                         *)
(* A row of the table is a record of the seven columns the query reads.    *)
(* A nullable STRING column holds PyNone (NULL) or PyStr(text).  Rows that *)
(* agree in all seven columns are one row of the model: further copies     *)
(* join the same partition with the same direction and change no result.   *)
(***************************************************************************)
NULL == PyNone

\* COALESCE(content, rendered_content, template_button_text)
Resolved(row) ==
    IF row.content # NULL THEN row.content
    ELSE IF row.rendered_content # NULL THEN row.rendered_content
    ELSE row.template_button_text

\* s LIKE pattern, from s[i] and pattern[j]: % is any run, _ any one character
RECURSIVE Like(_, _, _, _)
Like(s, i, pattern, j) ==
    IF j > Len(pattern) THEN i > Len(s)
    ELSE IF pattern[j] = 37 THEN \E k \in i..(Len(s) + 1) : Like(s, k, pattern, j + 1)
    ELSE /\ i <= Len(s)
         /\ (pattern[j] = 95 \/ pattern[j] = s[i])
         /\ Like(s, i + 1, pattern, j + 1)

\* line 94: from_addr = '{phone_number}' OR addressees LIKE '%{phone_number}%'
Matches(row, phone) ==
    \/ row.from_addr # NULL /\ row.from_addr.s = phone
    \/ row.addressees # NULL /\ Like(row.addressees.s, 1, <<37>> \o phone \o <<37>>, 1)

\* lines 86-89: PARTITION BY COALESCE(...), inserted_at
PartitionKey(row) == <<Resolved(row), row.inserted_at>>

Partition(matched, key) == {row \in matched : PartitionKey(row) = key}

\* lines 97-103, without rn = 1: direction = 'inbound' AND COALESCE(...) IS NOT NULL
PassesFilter(row) == row.direction = "inbound" /\ Resolved(row) # NULL

\* The rows of a partition share inserted_at, so ORDER BY TIMESTAMP(inserted_at)
\* leaves ROW_NUMBER free to number any of them 1.  The outer WHERE keeps the
\* partition's key iff the row numbered 1 passes the filter, so the keys kept are
\* those of the partitions whose rows all pass, and any of those where some do.
KeptKeySets(matched) ==
    LET keys == {PartitionKey(row) : row \in matched}
        sure == {k \in keys : \A row \in Partition(matched, k) : PassesFilter(row)}
        open == {k \in keys : /\ (\E row \in Partition(matched, k) : PassesFilter(row))
                               /\ (\E row \in Partition(matched, k) : ~PassesFilter(row))}
    IN  {sure \cup some : some \in SUBSET open}

\* lines 104-105: ORDER BY TIMESTAMP(inserted_at) ASC; rows of equal time in any order
RECURSIVE Orderings(_)
Orderings(keys) ==
    IF keys = {} THEN {<<>>}
    ELSE LET first == {k \in keys : \A other \in keys : k[2] <= other[2]}
         IN UNION {{<<k>> \o rest : rest \in Orderings(keys \ {k})} : k \in first}

\* line 106: LIMIT
Limit(seq, n) == IF Len(seq) <= n THEN seq ELSE SubSeq(seq, 1, n)

\* the result sets the query can produce: sequences of (message, inserted_at)
QueryResults(table, phone) ==
    LET matched == {row \in table : Matches(row, phone)}
    IN  UNION {{[i \in 1..Len(Limit(o, LIMIT)) |->
                    [message |-> Limit(o, LIMIT)[i][1], inserted_at |-> Limit(o, LIMIT)[i][2]]]
                : o \in Orderings(kept)} : kept \in KeptKeySets(matched)}

\* The query text is an f-string: a quote in the phone number ends the SQL
\* literal early and the query is rejected.
QueryIsMalformed(phone) == \E i \in 1..Len(phone) : phone[i] = 39

RECURSIVE MessagesOf(_)
\* line 112: [str(row.message) for row in message_history_job if row.message is not None]
MessagesOf(result) ==
    IF Len(result) = 0 THEN <<>>
    ELSE IF result[1].message = NULL THEN MessagesOf(Tail(result))
    ELSE <<Format(result[1].message)>> \o MessagesOf(Tail(result))

\* The outcomes of one call: the rows the query returned and whether it raised
\* (lines 115-118: any exception gives the empty list).  A query can fail for
\* reasons outside the program, so a well-formed one may raise too.
FetchOutcomes(table, phone_number) ==
    LET phone == Format(phone_number)
        failed == {[raised |-> TRUE, rows |-> <<>>, messages |-> <<>>]}
    IN  IF QueryIsMalformed(phone) THEN failed
        ELSE failed \cup {[raised |-> FALSE, rows |-> r, messages |-> MessagesOf(r)]
                          : r \in QueryResults(table, phone)}

(***************************************************************************)
(* generate_business_profile_with_gemini, lines 120-159.                   *)
(***************************************************************************)
\* lines 133-142: the prompt literal up to {message_text}, as code points:
\* the instruction sentences, then "Historial de mensajes:\n".
PromptHead ==
    <<
      69, 115, 116, 111, 115, 32, 109, 101, 110, 115, 97, 106, 101, 115, 32, 102,
      117, 101, 114, 111, 110, 32, 101, 110, 118, 105, 97, 100, 111, 115, 32, 112,
      111, 114, 32, 101, 108, 32, 112, 114, 111, 112, 105, 101, 116, 97, 114, 105,
      111, 32, 100, 101, 32, 117, 110, 97, 32, 109, 105, 99, 114, 111, 101, 109,
      112, 114, 101, 115, 97, 46, 32, 69, 115, 99, 114, 105, 98, 101, 32, 117,
      110, 32, 112, 101, 114, 102, 105, 108, 32, 100, 101, 32, 110, 101, 103, 111,
      99, 105, 111, 32, 100, 101, 32, 109, 225, 120, 105, 109, 111, 32, 49, 48,
      48, 32, 112, 97, 108, 97, 98, 114, 97, 115, 46, 32, 69, 115, 116, 101,
      32, 112, 101, 114, 102, 105, 108, 32, 78, 79, 32, 115, 101, 114, 225, 32,
      108, 101, 237, 100, 111, 32, 112, 111, 114, 32, 117, 110, 32, 104, 117, 109,
      97, 110, 111, 44, 32, 115, 101, 32, 101, 110, 116, 114, 101, 103, 97, 114,
      225, 32, 99, 111, 109, 111, 32, 99, 111, 110, 116, 101, 120, 116, 111, 32,
      97, 32, 117, 110, 97, 32, 76, 76, 77, 32, 113, 117, 101, 32, 114, 101,
      115, 112, 111, 110, 100, 101, 114, 225, 32, 102, 117, 116, 117, 114, 97, 115,
      32, 112, 114, 101, 103, 117, 110, 116, 97, 115, 32, 100, 101, 108, 32, 112,
      114, 111, 112, 105, 101, 116, 97, 114, 105, 111, 46, 32, 80, 111, 114, 32,
      108, 111, 32, 116, 97, 110, 116, 111, 44, 32, 115, 233, 32, 101, 102, 105,
      99, 105, 101, 110, 116, 101, 32, 121, 32, 111, 112, 116, 105, 109, 105, 122,
      97, 100, 111, 46, 32, 73, 110, 99, 108, 117, 121, 101, 32, 99, 111, 110,
      116, 101, 120, 116, 111, 32, 105, 109, 112, 111, 114, 116, 97, 110, 116, 101,
      32, 112, 97, 114, 97, 32, 97, 115, 101, 103, 117, 114, 97, 114, 32, 113,
      117, 101, 32, 108, 111, 115, 32, 102, 117, 116, 117, 114, 111, 115, 32, 99,
      111, 110, 115, 101, 106, 111, 115, 32, 115, 101, 97, 110, 32, 114, 101, 108,
      101, 118, 97, 110, 116, 101, 115, 32, 121, 32, 250, 116, 105, 108, 101, 115,
      44, 32, 116, 97, 108, 101, 115, 32, 99, 111, 109, 111, 32, 99, 97, 114,
      97, 99, 116, 101, 114, 237, 115, 116, 105, 99, 97, 115, 32, 99, 108, 97,
      118, 101, 32, 100, 101, 108, 32, 110, 101, 103, 111, 99, 105, 111, 32, 40,
      115, 101, 99, 116, 111, 114, 44, 32, 112, 114, 111, 100, 117, 99, 116, 111,
      115, 44, 32, 101, 116, 99, 46, 41, 44, 32, 97, 115, 237, 32, 99, 111,
      109, 111, 32, 108, 111, 115, 32, 112, 114, 105, 110, 99, 105, 112, 97, 108,
      101, 115, 32, 112, 114, 111, 98, 108, 101, 109, 97, 115, 32, 121, 32, 112,
      114, 105, 111, 114, 105, 100, 97, 100, 101, 115, 32, 100, 101, 108, 32, 112,
      114, 111, 112, 105, 101, 116, 97, 114, 105, 111, 46, 32, 72, 105, 115, 116,
      111, 114, 105, 97, 108, 32, 100, 101, 32, 109, 101, 110, 115, 97, 106, 101,
      115, 58, 10 >>

\* lines 130, 141: the messages joined by newlines, after the literal
Prompt(msgs) == PromptHead \o Join(<<10>>, msgs)

\* What the model call can do: raise, answer without parts, answer with parts
\* whose .text raises, or answer text (which may be empty).
GeminiOutcomes(texts) ==
    {[kind |-> "raises", text |-> <<>>], [kind |-> "no_parts", text |-> <<>>],
     [kind |-> "text_raises", text |-> <<>>]}
    \cup {[kind |-> "text", text |-> x] : x \in texts}

\* called: whether generate_content was invoked; text: the value returned
GenerateProfile(msgs, outcome) ==
    IF Len(msgs) = 0 THEN [called |-> FALSE, prompt |-> <<>>, text |-> <<>>]
    ELSE [called |-> TRUE, prompt |-> Prompt(msgs),
          text |-> IF outcome.kind = "text" THEN outcome.text ELSE <<>>]

(***************************************************************************)
(* push_profile_to_turn, lines 161-200.                                    *)
(***************************************************************************)
\* What requests.patch / raise_for_status can do.
HttpOutcomes == {"2xx", "4xx", "5xx", "RequestException", "Exception"}

\* lines 191-200: the branch that logs the outcome; every one of them returns
PushLog(outcome) ==
    CASE outcome = "2xx" -> "Successfully pushed profile"
      [] outcome \in {"4xx", "5xx"} -> "HTTP error pushing profile to Turn"
      [] outcome = "RequestException" -> "Request error pushing profile to Turn"
      [] OTHER -> "Generic error pushing profile to Turn"

\* the HTTPError of raise_for_status not caught
MutPushPropagatesHttpError(outcome) == outcome \in {"4xx", "5xx"}

\* whether the outcome leaves push_profile_to_turn as an exception
PushPropagates(outcome) == FALSE

\* requested: whether requests.patch was called; raised: whether an exception
\* left the function.  Line 177 is outside the try: lstrip exists on str only
\* (and on bytes, where a str argument is a TypeError).
PushProfile(phone_number, business_summary, outcome) ==
    IF Len(business_summary) = 0
    THEN [requested |-> FALSE, raised |-> FALSE, request |-> <<>>]
    ELSE IF phone_number.t # "str"
    THEN [requested |-> FALSE, raised |-> TRUE, request |-> <<>>]
    ELSE [requested |-> TRUE, raised |-> PushPropagates(outcome),
          request |-> <<[api |-> "turn", method |-> "PATCH",
                         phone |-> LStrip(phone_number.s, PLUS),
                         path |-> "/profile",
                         business_profile |-> business_summary,
                         outcome |-> outcome,
                         logged |-> PushLog(outcome)]>>]

(***************************************************************************)
(* Bounds and the inputs drawn within them.                                *)
(***************************************************************************)
\* longest phone-number string
MaxPhoneLen == 4
\* most rows of a table, beside the rows of a long history
MaxRows == 2
\* timestamps run over 1..MaxTs
MaxTs == 2

\* all strings over chars of length at most n
Strings(chars, n) == UNION {[1..k -> chars] : k \in 0..n}

\* "+" and "5": numbers with and without leading plus signs
PhoneStrings == Strings({43, 53}, MaxPhoneLen)

\* the texts the model can answer: "", "P", "P\nQ"
ProfileTexts == {<<>>, <<80>>, <<80, 10, 81>>}

\* the event of line 296-298: {"data": b64encode(json.dumps(doc).encode("utf-8"))}
PubSubEvent(doc) == PyDict(K_data :> PyBytes(B64Encode(Utf8Encode(JsonDumps(doc)))))

\* the event of line 309
HttpJsonEvent(value) == PyDict(K_phone_number :> value)

\* the three shapes of an event that carries the phone-number string p
ShapesOf(p) ==
    {PyStr(p), PubSubEvent(PyDict(K_phone_number :> PyStr(p))), HttpJsonEvent(PyStr(p))}

\* "+5": the contact whose history the table holds; "+6": another contact;
\* "+9": the business line
Contact == <<43, 53>>
Other == <<43, 54>>
Business == <<43, 57>>

\* values found under phone_number that are no string
OddValues ==
    {PyNone, PyInt(0), PyInt(5), PyBool(TRUE), PyList(<<>>), PyList(<<PyStr(Contact)>>),
     PyDict(EmptyDict)}

\* JSON documents that are no object with a phone_number
OddDocs ==
    OddValues \cup {PyStr(Contact), PyDict(K_data :> PyStr(Contact))}

\* data fields that are not the base64 of a JSON document: "TWE" (a dangling
\* quad), "T" (one character), "!!" (nothing of the alphabet: decodes to b""),
\* "/w==" (the byte 0xFF), a non-ASCII str, None, an int, the base64 of the
\* texts `{"phone_number"` and `{"phone_number": "+5"} x`
OddData ==
    {PyStr(<<84, 87, 69>>), PyStr(<<84>>), PyStr(<<33, 33>>), PyStr(<<47, 119, 61, 61>>),
     PyStr(<<233>>), PyNone, PyInt(1),
     PyBytes(B64Encode(<<123>> \o JsonQuote(K_phone_number))),
     PyBytes(B64Encode(JsonDumps(PyDict(K_phone_number :> PyStr(Contact))) \o <<32, 120>>))}

\* the Pub/Sub envelope as the platform delivers it: data is a str
PubSubStrEvent(doc) == PyDict(K_data :> PyStr(B64Encode(Utf8Encode(JsonDumps(doc)))))

OddEvents ==
    {PyDict(K_data :> d) : d \in OddData}
    \cup {PubSubEvent(doc) : doc \in OddDocs}
    \cup {PubSubEvent(PyDict(K_phone_number :> v)) : v \in OddValues}
    \cup {HttpJsonEvent(v) : v \in OddValues}
    \cup {PubSubStrEvent(PyDict(K_phone_number :> PyStr(Contact))),
          PyDict((K_data :> PyStr(<<84, 87, 69>>)) @@ (K_phone_number :> PyStr(Contact))),
          PyDict(EmptyDict), PyDict(K_httpMethod :> PyStr(<<80, 79, 83, 84>>)),
          PyNone, PyInt(5), PyBytes(Contact), PyList(<<>>), PyList(<<PyStr(K_data)>>),
          PyStr(K_data \o <<53>>)}

\* events with an httpMethod: the preflight, alone and over a payload, and a POST
MethodEvents ==
    {PyDict(K_httpMethod :> PyStr(OPTIONS)),
     PyDict((K_httpMethod :> PyStr(OPTIONS)) @@ (K_data :> PyStr(<<84, 87, 69>>))),
     PyDict((K_httpMethod :> PyStr(<<80, 79, 83, 84>>)) @@ (K_phone_number :> PyStr(Contact)))}

Events == UNION {ShapesOf(p) : p \in PhoneStrings} \cup OddEvents \cup MethodEvents

\* strings over 5 " d a t, for the decoding step alone
DecodeStrings == Strings({53, 34, 100, 97, 116}, MaxPhoneLen)

DecodeEvents == UNION {ShapesOf(p) : p \in DecodeStrings}

Row(from_addr, addressees, direction, texts, inserted_at) ==
    [from_addr |-> from_addr, addressees |-> addressees, direction |-> direction,
     content |-> texts[1], rendered_content |-> texts[2],
     template_button_text |-> texts[3], inserted_at |-> inserted_at]

\* sent by the contact; sent to the contact among others; between others
Addresses ==
    {<<PyStr(Contact), PyStr(Business)>>,
     <<PyStr(Business), PyStr(Contact \o <<44>> \o Other)>>,
     <<PyStr(Other), NULL>>}

\* no text; "a" before "b"; "a" in the second column; "b" in the third
Texts ==
    {<<NULL, NULL, NULL>>, <<PyStr(<<97>>), PyStr(<<98>>), PyStr(<<98>>)>>,
     <<NULL, PyStr(<<97>>), PyStr(<<98>>)>>, <<NULL, NULL, PyStr(<<98>>)>>}

RowUniverse ==
    {Row(a[1], a[2], d, x, ts) :
        a \in Addresses, d \in {"inbound", "outbound"}, x \in Texts, ts \in 1..MaxTs}

\* the subsets of S of at most n elements
RECURSIVE Subsets(_, _)
Subsets(S, n) ==
    IF n = 0 THEN {{}}
    ELSE LET smaller == Subsets(S, n - 1)
         IN smaller \cup {t \cup {x} : t \in smaller, x \in S}

\* a long history: n inbound messages "f" of the contact at the times 2-n .. 1
Filler(n) ==
    {Row(PyStr(Contact), PyStr(Business), "inbound", <<PyStr(<<102>>), NULL, NULL>>, 2 - i)
        : i \in 1..n}

\* rows of the contact that come on top of a long history
CapRows ==
    {Row(PyStr(Contact), PyStr(Business), "inbound", <<x, NULL, NULL>>, ts) :
        x \in {PyStr(<<97>>), PyStr(<<98>>)}, ts \in 0..MaxTs}
    \cup {Row(PyStr(Business), PyStr(Contact), "outbound", <<x, NULL, NULL>>, ts) :
        x \in {PyStr(<<97>>), PyStr(<<98>>)}, ts \in 0..MaxTs}

FetchTables ==
    Subsets(RowUniverse, MaxRows)
    \cup {Filler(LIMIT) \cup extra : extra \in Subsets(CapRows, MaxRows)}

\* the phone numbers the history is fetched for: "+5" and "6"
FetchPhones == {Contact, <<54>>}

\* the rows the whole pipeline runs over
PipeRows ==
    {Row(PyStr(Contact), PyStr(Business), "inbound", <<PyStr(<<97>>), NULL, NULL>>, 1),
     Row(PyStr(Contact), PyStr(Business), "inbound", <<NULL, PyStr(<<98>>), NULL>>, 2),
     Row(PyStr(Business), PyStr(Contact \o <<44>> \o Other), "outbound",
         <<PyStr(<<97>>), NULL, NULL>>, 1),
     Row(PyStr(Business), PyStr(Contact \o <<44>> \o Other), "inbound",
         <<NULL, NULL, PyStr(<<99>>)>>, 3),
     Row(PyStr(Other), NULL, "inbound", <<PyStr(<<100>>), NULL, NULL>>, 1)}

PipeTables == Subsets(PipeRows, MaxRows + 1)

(***************************************************************************)
(* State.  One run of generate_and_push_profile over one event.            *)
(*   event            the triggering event                                 *)
(*   table            the rows of the warehouse table                      *)
(*   pc               start, fetch, generate, push, done, raised           *)
(*   phone_number, rows, messages, business_summary   the locals           *)
(*   calls            the external calls made so far, in order             *)
(*   result           <<>> or the three-tuple returned                     *)
(***************************************************************************)
VARIABLES event, table, pc, phone_number, rows, messages, business_summary,
          calls, result

vars == <<event, table, pc, phone_number, rows, messages, business_summary,
          calls, result>>

\* the test of line 267 left out
MutHistoryNeverEmpty(msgs) == FALSE

\* the test of line 277 left out
MutSummaryNeverEmpty(summary) == FALSE

\* line 267: `if not messages`
HistoryIsEmpty(msgs) == Len(msgs) = 0

\* line 277: `if not business_summary`
SummaryIsEmpty(summary) == Len(summary) = 0

\* lines 214-261
Decode ==
    /\ pc = "start"
    /\ \E d \in {DecodeEvent(event)} :
        /\ phone_number' = d.phone_number
        /\ result' = d.response
        /\ pc' = IF d.returns THEN "done" ELSE "fetch"
    /\ UNCHANGED <<event, table, rows, messages, business_summary, calls>>

\* lines 266-273, with fetch_message_history
FetchHistory ==
    /\ pc = "fetch"
    /\ \E f \in FetchOutcomes(table, phone_number) :
        /\ rows' = f.rows
        /\ messages' = f.messages
        /\ calls' = Append(calls, [api |-> "bigquery", phone |-> Format(phone_number),
                                   raised |-> f.raised])
        /\ IF HistoryIsEmpty(f.messages)
           THEN /\ pc' = "done"
                /\ result' = <<"No messages found for {phone_number}. Profile not generated.",
                               200, response_headers>>
           ELSE /\ pc' = "generate"
                /\ result' = result
    /\ UNCHANGED <<event, table, phone_number, business_summary>>

\* lines 276-281, with generate_business_profile_with_gemini
Generate ==
    /\ pc = "generate"
    /\ \E outcome \in GeminiOutcomes(ProfileTexts) :
       \E g \in {GenerateProfile(messages, outcome)} :
        /\ business_summary' = g.text
        /\ calls' = IF g.called
                    THEN Append(calls, [api |-> "gemini", prompt |-> g.prompt,
                                        outcome |-> outcome.kind])
                    ELSE calls
        /\ IF SummaryIsEmpty(g.text)
           THEN /\ pc' = "done"
                /\ result' = <<"Failed to generate profile for {phone_number}.",
                               500, response_headers>>
           ELSE /\ pc' = "push"
                /\ result' = result
    /\ UNCHANGED <<event, table, phone_number, rows, messages>>

\* lines 284-288, with push_profile_to_turn
Push ==
    /\ pc = "push"
    /\ \E outcome \in HttpOutcomes :
       \E h \in {PushProfile(phone_number, business_summary, outcome)} :
        /\ calls' = calls \o h.request
        /\ IF h.raised
           THEN /\ pc' = "raised"
                /\ result' = result
           ELSE /\ pc' = "done"
                /\ result' = <<"Profile generation and push attempt completed successfully.",
                               200, response_headers>>
    /\ UNCHANGED <<event, table, phone_number, rows, messages, business_summary>>

(***************************************************************************)
(* Specifications.                                                         *)
(***************************************************************************)
Locals ==
    /\ phone_number = PyNone
    /\ rows = <<>>
    /\ messages = <<>>
    /\ business_summary = <<>>
    /\ calls = <<>>
    /\ result = <<>>

\* one run of the handler over any event and any table
Init ==
    /\ event \in Events
    /\ table \in PipeTables
    /\ pc = "start"
    /\ Locals

Next == Decode \/ FetchHistory \/ Generate \/ Push

Spec == Init /\ [][Next]_vars

\* the decoding step over every string of the alphabet, in its three shapes
InitDecode ==
    /\ event \in DecodeEvents
    /\ table = {}
    /\ pc = "start"
    /\ Locals

NextDecode == Decode

SpecDecode == InitDecode /\ [][NextDecode]_vars

\* fetch_message_history over every table, at the call of line 266 after a
\* direct call with the phone number
InitFetch ==
    /\ \E p \in FetchPhones :
        /\ event = PyStr(p)
        /\ phone_number = PyStr(p)
    /\ table \in FetchTables
    /\ pc = "fetch"
    /\ rows = <<>>
    /\ messages = <<>>
    /\ business_summary = <<>>
    /\ calls = <<>>
    /\ result = <<>>

NextFetch == FetchHistory

SpecFetch == InitFetch /\ [][NextFetch]_vars

\* push_profile_to_turn over every phone-number string and profile text, at
\* the call of line 284
InitPush ==
    /\ \E p \in PhoneStrings :
        /\ event = PyStr(p)
        /\ phone_number = PyStr(p)
    /\ business_summary \in ProfileTexts
    /\ table = {}
    /\ pc = "push"
    /\ rows = <<>>
    /\ messages = <<>>
    /\ calls = <<>>
    /\ result = <<>>

NextPush == Push

SpecPush == InitPush /\ [][NextPush]_vars


(***************************************************************************)
(* Properties.                                                             *)
(***************************************************************************)
Status == result[2]

\* the positions in the call log of the calls to one external system
CallsTo(api) == {i \in 1..Len(calls) : calls[i].api = api}

\* the preflight pseudo-event
IsPreflight(e) == e.t = "dict" /\ DictGet(e.d, K_httpMethod) = PyStr(OPTIONS)

HasData(e) == e.t = "dict" /\ K_data \in DOMAIN e.d

PayloadOf(e) == B64Decode(e.d[K_data])

PayloadText(e) == Utf8Decode(PayloadOf(e).b)

PayloadDocument(e) == JsonLoads(PayloadText(e).s)

\* the data field is not valid base64
DataNotBase64(e) == HasData(e) /\ ~PayloadOf(e).ok

\* the decoded payload is not valid JSON
PayloadNotJson(e) ==
    /\ HasData(e) /\ PayloadOf(e).ok
    /\ (~PayloadText(e).ok \/ ~PayloadDocument(e).ok)

\* the parsed structure has no phone_number field
PayloadLacksPhone(e) ==
    /\ HasData(e) /\ PayloadOf(e).ok /\ PayloadText(e).ok /\ PayloadDocument(e).ok
    /\ (PayloadDocument(e).v.t # "dict" \/ K_phone_number \notin DOMAIN PayloadDocument(e).v.d)

\* the event is a mapping with neither data nor phone_number
EventLacksPhone(e) ==
    e.t = "dict" /\ K_data \notin DOMAIN e.d /\ K_phone_number \notin DOMAIN e.d

Undecodable(e) ==
    /\ ~IsPreflight(e)
    /\ DataNotBase64(e) \/ PayloadNotJson(e) \/ PayloadLacksPhone(e) \/ EventLacksPhone(e)

\* C1: an event whose phone number cannot be decoded (data that is not valid
\* base64, a payload that is not valid JSON, a document or an event without a
\* phone_number field) is answered with status 400 and no external call.
C1_UndecodableIs400 ==
    (pc # "start" /\ Undecodable(event)) => (pc = "done" /\ Status = 400 /\ calls = <<>>)

\* C2: when the fetched history is empty, because no row qualifies or because
\* the query raised, the run returns 200 having called neither the model nor
\* the contact endpoint; the model is only ever called with a non-empty
\* history, whose messages make its prompt.
C2_EmptyHistoryEnds ==
    /\ (CallsTo("bigquery") # {} /\ messages = <<>>) =>
            /\ pc = "done" /\ Status = 200
            /\ CallsTo("gemini") = {} /\ CallsTo("turn") = {}
    /\ \A i \in CallsTo("gemini") : messages # <<>> /\ calls[i].prompt = Prompt(messages)

\* a run over a table with rows whose query raised, and that returned 200
C2_Witness ==
    /\ pc = "done" /\ Status = 200
    /\ table # {} /\ Len(calls) = 1 /\ calls[1].api = "bigquery" /\ calls[1].raised

\* C3: when the history is not empty and the model call yields no text (it
\* raises, answers without parts, or answers empty text), the run returns 500
\* and sends no request to the contact endpoint; a request only ever carries a
\* non-empty profile.
C3_NoTextEnds ==
    /\ (CallsTo("gemini") # {} /\ business_summary = <<>>) =>
            /\ pc = "done" /\ Status = 500
            /\ CallsTo("turn") = {}
    /\ \A i \in CallsTo("turn") : calls[i].business_profile # <<>>

\* a run whose model call answered empty text, and that returned 500
C3_Witness ==
    /\ pc = "done" /\ Status = 500
    /\ \E i \in CallsTo("gemini") : calls[i].outcome = "text"

\* C4: once a publish request has been sent, whatever its outcome (2xx, 4xx,
\* 5xx, a network failure, any other exception), the run has returned the same
\* 200 answer and has sent exactly one request, carrying the profile.
C4_PublishOutcomeIgnored ==
    \A i \in CallsTo("turn") :
        /\ pc = "done"
        /\ result = <<"Profile generation and push attempt completed successfully.",
                      200, response_headers>>
        /\ Cardinality(CallsTo("turn")) = 1
        /\ calls[i].business_profile = business_summary

\* a run whose publish request was answered 5xx, and that returned 200
C4_Witness ==
    /\ pc = "done" /\ Status = 200
    /\ \E i \in CallsTo("turn") : calls[i].outcome = "5xx"

\* every event of the decoding specification with the string it was built from
ShapePairs == UNION {{<<e, p>> : e \in ShapesOf(p)} : p \in DecodeStrings}

\* those built from a non-empty string in which "data" does not occur
PlainPairs == {x \in ShapePairs : x[2] # <<>> /\ ~Contains(x[2], K_data)}

PlainEvents == {x[1] : x \in PlainPairs}

\* C5: for every string p, each of the three shapes that carry p (p itself,
\* {"data": base64 of the JSON {"phone_number": p}}, and {"phone_number": p})
\* makes the decoding step go on with the string p.
C5_ShapesAgree ==
    pc # "start" =>
        /\ pc = "fetch" /\ phone_number.t = "str"
        /\ <<event, phone_number.s>> \in ShapePairs

\* What the decoding step does guarantee: the shapes agree for every non-empty
\* string p in which "data" does not occur.
PlainShapesAgree ==
    (pc # "start" /\ event \in PlainEvents) =>
        /\ pc = "fetch" /\ phone_number.t = "str"
        /\ <<event, phone_number.s>> \in PlainPairs

\* one leading "+" removed, nothing else changed
StripOnePlus(s) == IF Len(s) > 0 /\ s[1] = 43 THEN Tail(s) ELSE s

\* C6: the phone number of the outbound request is the input with a single
\* leading "+" removed when present, and otherwise unchanged.
C6_SingleLeadingPlus ==
    \A i \in CallsTo("turn") : calls[i].phone = StripOnePlus(phone_number.s)

\* the query of the history was answered (fetch specification: the first call)
QueryAnswered == pc # "fetch" /\ Len(calls) > 0 /\ ~calls[1].raised

\* the rows of the phone number that are inbound and have a text
InboundRows ==
    {r \in table : Matches(r, phone_number.s) /\ r.direction = "inbound" /\ Resolved(r) # NULL}

IsEntryOf(entry, r) == entry.message = Resolved(r) /\ entry.inserted_at = r.inserted_at

\* C7: for every (resolved text, timestamp) pair of an inbound row of the
\* phone number with a text, the output holds exactly one entry, whatever
\* other matching rows of either direction share the pair (at most LIMIT pairs).
C7_OnePerPair ==
    (QueryAnswered /\ Cardinality({PartitionKey(r) : r \in InboundRows}) <= LIMIT) =>
        \A r \in InboundRows :
            Cardinality({i \in 1..Len(rows) : IsEntryOf(rows[i], r)}) = 1

\* the entries are texts of inbound rows of the phone number, in ascending
\* timestamp order, at most LIMIT of them
EntriesAreInboundAscending ==
    /\ Len(messages) = Len(rows)
    /\ \A i \in 1..Len(rows) :
        /\ messages[i] = rows[i].message.s
        /\ \E r \in InboundRows : IsEntryOf(rows[i], r)
    /\ \A i \in 1..Len(rows) : \A j \in 1..Len(rows) :
        i < j => rows[i].inserted_at <= rows[j].inserted_at
    /\ Len(rows) <= LIMIT

\* no inbound row left out is earlier than an entry
Earliest(left) ==
    \A r \in left : \A i \in 1..Len(rows) :
        IsEntryOf(rows[i], r) \/ rows[i].inserted_at <= r.inserted_at

\* C8: every entry returned is the resolved text of an inbound row of the
\* phone number with a text; entries are in ascending timestamp order; there
\* are at most LIMIT of them; and when more than LIMIT (text, timestamp) pairs
\* qualify the entries are the LIMIT earliest.
C8_InboundAscendingCapped ==
    QueryAnswered =>
        /\ EntriesAreInboundAscending
        /\ Cardinality({PartitionKey(r) : r \in InboundRows}) > LIMIT =>
                /\ Len(rows) = LIMIT
                /\ Earliest({r \in InboundRows : \A i \in 1..Len(rows) : ~IsEntryOf(rows[i], r)})

\* a matching row of another direction shares the row's text and timestamp:
\* deduplication keeps one row of the pair, which need not be the inbound one
Shadowed(r) ==
    \E o \in table :
        /\ Matches(o, phone_number.s) /\ o.direction # "inbound"
        /\ PartitionKey(o) = PartitionKey(r)

\* What the query does guarantee: the first three parts of C8, and every inbound
\* row that no row of another direction shadows is an entry, unless LIMIT
\* entries no later than it were returned.
UnshadowedAreCappedEarliest ==
    QueryAnswered =>
        /\ EntriesAreInboundAscending
        /\ \A r \in InboundRows :
            \/ \E i \in 1..Len(rows) : IsEntryOf(rows[i], r)
            \/ Shadowed(r)
            \/ Len(rows) = LIMIT /\ \A i \in 1..Len(rows) : rows[i].inserted_at <= r.inserted_at

\* more rows than LIMIT qualified: LIMIT entries came back and an inbound row
\* that no other row shadows was cut
CapApplied ==
    /\ QueryAnswered /\ Len(rows) = LIMIT
    /\ \E r \in InboundRows :
        /\ ~Shadowed(r)
        /\ \A i \in 1..Len(rows) : ~IsEntryOf(rows[i], r)

\* C9: a run over a decodable event with a non-empty history and a non-empty
\* model answer makes exactly one warehouse query, then one model call whose
\* prompt holds the fetched messages joined by newlines, then one request with
\* the normalised phone number and the model's text, and returns 200.
C9_HappyPath ==
    (pc \in {"done", "raised"} /\ CallsTo("gemini") # {} /\ business_summary # <<>>) =>
        /\ pc = "done" /\ Status = 200
        /\ Len(calls) = 3
        /\ calls[1].api = "bigquery" /\ calls[2].api = "gemini" /\ calls[3].api = "turn"
        /\ calls[2].prompt = PromptHead \o Join(<<10>>, messages)
        /\ calls[3].phone = StripOnePlus(phone_number.s)
        /\ calls[3].business_profile = business_summary

\* C10: every run ends by returning a three-tuple whose status is 200, 204,
\* 400 or 500, 204 exactly for the preflight pseudo-event and before any
\* external call; no exception leaves the handler.
C10_AlwaysReturns ==
    /\ pc # "raised"
    /\ pc = "done" =>
        /\ Len(result) = 3 /\ Status \in {200, 204, 400, 500}
        /\ Status = 204 <=> IsPreflight(event)
        /\ Status = 204 => calls = <<>>

====
